---- MODULE Spec2Model ----
(***************************************************************************)
(* Model of just-download (src/lib.rs): version resolution and URL         *)
(* assembly (assemble_download_url), local file-name derivation            *)
(* (DownloadPath::from), the progress-observing reader                     *)
(* (DownloadProgress::read) and the download orchestration (download).     *)
(*                                                                         *)
(* Strings are sequences of one-character strings, so that replacement     *)
(* and URL parsing are computed character by character.                    *)
(***************************************************************************)
EXTENDS Integers, Sequences, FiniteSets, TLC

VARIABLES
    pc,             \* position of the running download call
    calls,          \* number of download calls started so far
    manifest,       \* &Manifest argument of the current call
    req,            \* Option<VersionReq> argument of the current call
    fs,             \* the file system: path |-> file content
    download_url,   \* local download_url of download
    version,        \* local version of download
    response,       \* the reqwest Response (Content-Length header, body)
    body_pos,       \* bytes the inner reader (the response) has handed out
    byte_size,      \* local byte_size of download
    pb,             \* the indicatif ProgressBar
    download_path,  \* local download_path of download
    buf,            \* bytes read by io::copy and not yet written
    written,        \* io::copy's running count of bytes written
    interrupts,     \* number of ErrorKind::Interrupted reads in this call
    last_read,      \* outcome of the latest DownloadProgress::read
    get_count,      \* number of GET requests issued by the current call
    fetched_url,    \* the URL the GET request was issued for
    fs_at_call,     \* the file system as it was when the current call started
    steps,          \* steps the current call has executed, in order
    outcome,        \* what the current call returned (or that it panicked)
    prev,           \* inputs and outcome of the previous call
    url_in,         \* argument of a stand-alone DownloadPath::from call
    path_out        \* its result

vars == <<pc, calls, manifest, req, fs, download_url, version, response,
          body_pos, byte_size, pb, download_path, buf, written, interrupts,
          last_read, get_count, fetched_url,
          fs_at_call, steps, outcome, prev, url_in, path_out>>

(***************************************************************************)
(* Bounds                                                                  *)
(***************************************************************************)
MaxCalls == 2        \* download calls in one behaviour
MaxBody == 2         \* longest response body, in bytes
MaxLen == 2          \* largest declared Content-Length
MaxChunk == 2        \* most bytes one read returns
MaxInterrupts == 1   \* interrupted reads per call
MaxRest == 4         \* characters after the URL prefix in DownloadPath::from inputs

None == [some |-> FALSE]
Some(v) == [some |-> TRUE, val |-> v]

(***************************************************************************)
(* Strings                                                                 *)
(***************************************************************************)
TOKEN == <<"{", "v", "e", "r", "s", "i", "o", "n", "}">>
TplExample == <<"h", "t", "t", "p", "s", ":", "/", "/", "e", "x", "a", "m", "p", "l", "e", ".", "t", "e", "s", "t", "/", "p", "k", "g", "/", "{", "v", "e", "r", "s", "i", "o", "n", "}", "/", "p", "k", "g", ".", "t", "a", "r", ".", "g", "z", "#", "p", "k", "g">>
UrlExample == <<"h", "t", "t", "p", "s", ":", "/", "/", "e", "x", "a", "m", "p", "l", "e", ".", "t", "e", "s", "t", "/", "p", "k", "g", "/", "2", ".", "0", ".", "0", "/", "p", "k", "g", ".", "t", "a", "r", ".", "g", "z", "#", "p", "k", "g">>
TplTwice == <<"h", "t", "t", "p", "s", ":", "/", "/", "h", "/", "{", "v", "e", "r", "s", "i", "o", "n", "}", "/", "a", "-", "{", "v", "e", "r", "s", "i", "o", "n", "}", ".", "t", "g", "z", "#", "a">>
TplPlain == <<"h", "t", "t", "p", "s", ":", "/", "/", "h", "/", "a", ".", "t", "g", "z", "#", "a">>
TplNoFragment == <<"h", "t", "t", "p", "s", ":", "/", "/", "h", "/", "{", "v", "e", "r", "s", "i", "o", "n", "}", "/", "a", ".", "t", "g", "z">>
TplNoPath == <<"h", "t", "t", "p", "s", ":", "/", "/", "h", "#", "a">>
TplOtherScheme == <<"x", ":", "/", "/", "h", "/", "{", "v", "e", "r", "s", "i", "o", "n", "}", "#", "a">>
PkgTarGz == <<"p", "k", "g", ".", "t", "a", "r", ".", "g", "z">>
Pkg == <<"p", "k", "g">>
PrefixHttps == <<"h", "t", "t", "p", "s", ":", "/", "/", "h">>
PrefixOther == <<"x", ":", "/", "/", "h">>
PrefixOtherBare == <<"x", ":">>

Letters == {"a", "b", "c", "d", "e", "f", "g", "h", "i", "j", "k", "l", "m",
            "n", "o", "p", "q", "r", "s", "t", "u", "v", "w", "x", "y", "z"}
DigitChars == <<"0", "1", "2", "3", "4", "5", "6", "7", "8", "9">>

RECURSIVE IndexFrom(_, _, _)
\* least i >= from with s[i] \in cs, or Len(s) + 1
IndexFrom(s, cs, from) ==
    IF from > Len(s) THEN Len(s) + 1
    ELSE IF s[from] \in cs THEN from
    ELSE IndexFrom(s, cs, from + 1)

StartsWith(s, p) == Len(s) >= Len(p) /\ SubSeq(s, 1, Len(p)) = p

RECURSIVE Split(_, _)
\* str::split(c): the pieces of s between the occurrences of c
Split(s, c) ==
    LET i == IndexFrom(s, {c}, 1)
    IN  IF i > Len(s) THEN <<s>>
        ELSE <<SubSeq(s, 1, i - 1)>> \o Split(SubSeq(s, i + 1, Len(s)), c)

RECURSIVE Join(_, _)
Join(segs, c) ==
    IF Len(segs) = 0 THEN <<>>
    ELSE IF Len(segs) = 1 THEN segs[1]
    ELSE segs[1] \o <<c>> \o Join(Tail(segs), c)

(***************************************************************************)
(* semver::Version and its Display form                                    *)
(***************************************************************************)
V(major, minor, patch) == [major |-> major, minor |-> minor, patch |-> patch]

RECURSIVE Decimal(_)
Decimal(n) ==
    IF n < 10 THEN <<DigitChars[n + 1]>>
    ELSE Decimal(n \div 10) \o <<DigitChars[(n % 10) + 1]>>

\* Version::to_string: major.minor.patch
to_string(v) ==
    Decimal(v.major) \o <<".">> \o Decimal(v.minor) \o <<".">> \o Decimal(v.patch)

VersionLess(a, b) ==
    \/ a.major < b.major
    \/ a.major = b.major /\ a.minor < b.minor
    \/ a.major = b.major /\ a.minor = b.minor /\ a.patch < b.patch

\* VersionReq::matches for the caret requirement ^major
Matches(r, v) == v.major = r.caret

\* just_versions::find_matching_version: the highest listed version that
\* satisfies the requirement; without a requirement, the highest listed one
find_matching_version(versions, r) ==
    LET ok == {i \in 1..Len(versions) : r.some => Matches(r.val, versions[i])}
    IN  IF ok = {} THEN None
        ELSE Some(versions[CHOOSE i \in ok :
                      \A j \in ok : ~VersionLess(versions[i], versions[j])])

(***************************************************************************)
(* str::replace                                                            *)
(***************************************************************************)
\* str::replacen(from, to, 1) in place of str::replace
replace_first(s, from, to) ==
    LET starts == {i \in 1..(Len(s) - Len(from) + 1) :
                      SubSeq(s, i, i + Len(from) - 1) = from}
    IN  IF starts = {} THEN s
        ELSE LET i == CHOOSE k \in starts : \A j \in starts : k <= j
             IN  SubSeq(s, 1, i - 1) \o to \o SubSeq(s, i + Len(from), Len(s))

RECURSIVE replace(_, _, _)
replace(s, from, to) ==
    IF Len(s) < Len(from) THEN s
    ELSE IF SubSeq(s, 1, Len(from)) = from
         THEN to \o replace(SubSeq(s, Len(from) + 1, Len(s)), from, to)
         ELSE <<s[1]>> \o replace(Tail(s), from, to)

(***************************************************************************)
(* reqwest::Url::parse                                                     *)
(***************************************************************************)
SpecialSchemes == { <<"h", "t", "t", "p">>, <<"h", "t", "t", "p", "s">> }

\* the parser percent-encodes these characters of a path
PathEncode(c) ==
    IF c = "{" THEN <<"%", "7", "B">>
    ELSE IF c = "}" THEN <<"%", "7", "D">>
    ELSE <<c>>

RECURSIVE EncodeSegment(_)
EncodeSegment(s) ==
    IF s = <<>> THEN <<>> ELSE PathEncode(s[1]) \o EncodeSegment(Tail(s))

Dot == <<".">>
DotDot == <<".", ".">>

RECURSIVE NormalizeSegments(_, _)
\* the path state of the parser: ".." removes the segment before it, "."
\* is dropped, and either one in last place leaves an empty last segment
NormalizeSegments(raw, out) ==
    IF raw = <<>> THEN out
    ELSE LET s == raw[1]
             last == Len(raw) = 1
             popped == IF out = <<>> THEN out ELSE SubSeq(out, 1, Len(out) - 1)
         IN  IF s = DotDot
                THEN NormalizeSegments(Tail(raw), IF last THEN Append(popped, <<>>) ELSE popped)
             ELSE IF s = Dot
                THEN NormalizeSegments(Tail(raw), IF last THEN Append(out, <<>>) ELSE out)
             ELSE NormalizeSegments(Tail(raw), Append(out, EncodeSegment(s)))

RECURSIVE SkipSlashes(_, _)
SkipSlashes(s, i) == IF i <= Len(s) /\ s[i] = "/" THEN SkipSlashes(s, i + 1) ELSE i

\* path of a URL that has an authority or starts with "/"
ParsePath(rawpath, special) ==
    IF rawpath = <<>>
    THEN IF special THEN <<"/">> ELSE <<>>
    ELSE <<"/">> \o Join(NormalizeSegments(Split(Tail(rawpath), "/"), <<>>), "/")

\* Url::parse: [ok |-> FALSE] for a ParseError, otherwise the components
UrlParse(s) ==
    LET colon == IndexFrom(s, {":"}, 1)
        scheme == SubSeq(s, 1, colon - 1)
        hasScheme == /\ colon <= Len(s)
                     /\ colon > 1
                     /\ \A i \in 1..(colon - 1) : s[i] \in Letters
        special == scheme \in SpecialSchemes
        hashAt == IndexFrom(s, {"#"}, colon + 1)
        fragment == IF hashAt <= Len(s) THEN Some(SubSeq(s, hashAt + 1, Len(s))) ELSE None
        beforeHash == SubSeq(s, 1, hashAt - 1)
        queryAt == IndexFrom(beforeHash, {"?"}, colon + 1)
        hier == SubSeq(beforeHash, colon + 1, queryAt - 1)
        hasAuthority == special \/ StartsWith(hier, <<"/", "/">>)
        hostFrom == IF special THEN SkipSlashes(hier, 1) ELSE 3
        hostEnd == IndexFrom(hier, {"/"}, hostFrom)
        host == SubSeq(hier, hostFrom, hostEnd - 1)
        rawpath == IF hasAuthority THEN SubSeq(hier, hostEnd, Len(hier)) ELSE hier
        opaque == ~hasAuthority /\ ~StartsWith(hier, <<"/">>)
    IN  IF ~hasScheme THEN [ok |-> FALSE]
        ELSE IF special /\ host = <<>> THEN [ok |-> FALSE]
        ELSE [ok |-> TRUE, scheme |-> scheme,
              path |-> IF opaque THEN hier ELSE ParsePath(rawpath, special),
              fragment |-> fragment]

\* Url::path_segments: None unless the path starts with "/"
path_segments(url) ==
    IF StartsWith(url.path, <<"/">>) THEN Some(Split(Tail(url.path), "/")) ELSE None

\* Url::fragment
fragment(url) == url.fragment

(***************************************************************************)
(* DownloadPath::from                                                      *)
(***************************************************************************)
\* the uncompressed name cut at its first dot
DownloadPath_from_strip_extension(url_str) ==
    LET url == UrlParse(url_str)
        segments == path_segments(url)
        name == segments.val[Len(segments.val)]
    IN  IF ~url.ok THEN [kind |-> "Err"]
        ELSE IF ~segments.some THEN [kind |-> "Panic"]
        ELSE IF ~fragment(url).some THEN [kind |-> "Panic"]
        ELSE [kind |-> "Ok",
              compressed_path |-> fragment(url).val,
              uncompressed_path |-> SubSeq(name, 1, IndexFrom(name, {"."}, 1) - 1)]

\* both names taken from the last path segment
DownloadPath_from_segment_only(url_str) ==
    LET url == UrlParse(url_str)
        segments == path_segments(url)
    IN  IF ~url.ok THEN [kind |-> "Err"]
        ELSE IF ~segments.some THEN [kind |-> "Panic"]
        ELSE IF ~fragment(url).some THEN [kind |-> "Panic"]
        ELSE [kind |-> "Ok",
              compressed_path |-> segments.val[Len(segments.val)],
              uncompressed_path |-> segments.val[Len(segments.val)]]

DownloadPath_from(url_str) ==
    LET url == UrlParse(url_str)
        segments == path_segments(url)
    IN  IF ~url.ok THEN [kind |-> "Err"]
        ELSE IF ~segments.some THEN [kind |-> "Panic"]
        ELSE IF ~fragment(url).some THEN [kind |-> "Panic"]
        ELSE [kind |-> "Ok",
              compressed_path |-> fragment(url).val,
              uncompressed_path |-> segments.val[Len(segments.val)]]

(***************************************************************************)
(* Inputs of download: manifests, requirements, responses, file systems    *)
(***************************************************************************)
V090 == V(0, 9, 0)
V100 == V(1, 0, 0)
V120 == V(1, 2, 0)
V200 == V(2, 0, 0)
V1000 == V(10, 0, 0)

Manifest(name, url, pinned, versions) ==
    [package |-> name, url |-> url, pinned |-> pinned, versions |-> versions]

ExampleManifest == Manifest("pkg", TplExample, None, Some(<<V200>>))

Manifests ==
    { ExampleManifest,
      Manifest("a", TplTwice, Some(V090), Some(<<V100, V120, V200>>)),
      Manifest("a", TplTwice, Some(V1000), Some(<<>>)),
      Manifest("a", TplPlain, Some(V090), None),
      Manifest("a", TplPlain, None, None),
      Manifest("a", TplPlain, None, Some(<<V200>>)),
      Manifest("a", TplNoFragment, Some(V120), Some(<<V200>>)),
      Manifest("a", TplNoPath, None, Some(<<V100>>)),
      Manifest("a", TplOtherScheme, Some(V090), None) }

Requirements == { None, Some([caret |-> 1]), Some([caret |-> 3]) }

Body(n) == [i \in 1..n |-> i]

\* Content-Length header values: absent, not a number, or a decimal number
HeaderValues ==
    { None, Some(<<"x">>), Some(<<>>) } \cup { Some(Decimal(n)) : n \in 0..MaxLen }

Responses == [content_length : HeaderValues, body : { Body(n) : n \in 0..MaxBody }]

NoFiles == <<>>
OldContent == <<0>>
InitialFileSystems == { NoFiles, [p \in { <<"a">> } |-> OldContent] }

NoResponse == [content_length |-> None, body |-> <<>>]
NoBar == [len |-> 0, pos |-> 0, finishes |-> 0, exists |-> FALSE]
NoPath == [kind |-> "none"]
NoRead == [called |-> FALSE]
NoOutcome == [kind |-> "none"]
NoPrev == [started |-> FALSE, same |-> FALSE, kind |-> "none"]

(***************************************************************************)
(* assemble_download_url                                                   *)
(***************************************************************************)
\* the pinned version is used only when the manifest lists no versions
assemble_download_url_no_fallback(m, r) ==
    LET url_template == m.url
        matched == find_matching_version(m.versions.val, r)
    IN  IF m.versions.some
        THEN IF matched.some
             THEN Some([url |-> replace(url_template, TOKEN, to_string(matched.val)),
                        version |-> matched.val])
             ELSE None
        ELSE IF m.pinned.some
        THEN Some([url |-> replace(url_template, TOKEN, to_string(m.pinned.val)),
                   version |-> m.pinned.val])
        ELSE None

assemble_download_url(m, r) ==
    LET url_template == m.url
        matched == IF m.versions.some
                   THEN find_matching_version(m.versions.val, r)
                   ELSE None
    IN  IF matched.some
        THEN Some([url |-> replace(url_template, TOKEN, to_string(matched.val)),
                   version |-> matched.val])
        ELSE IF m.pinned.some
        THEN Some([url |-> replace(url_template, TOKEN, to_string(m.pinned.val)),
                   version |-> m.pinned.val])
        ELSE None

(***************************************************************************)
(* Content-Length: HeaderValue::to_str and str::parse::<u64>               *)
(***************************************************************************)
RECURSIVE DigitsValue(_, _)
DigitsValue(s, acc) ==
    IF s = <<>> THEN acc
    ELSE DigitsValue(Tail(s),
                     10 * acc + (CHOOSE d \in 0..9 : DigitChars[d + 1] = s[1]))

IsDigit(c) == \E d \in 1..10 : DigitChars[d] = c

parse_u64(s) ==
    LET digits == IF s # <<>> /\ s[1] = "+" THEN Tail(s) ELSE s
    IN  IF digits # <<>> /\ \A i \in 1..Len(digits) : IsDigit(digits[i])
        THEN Some(DigitsValue(digits, 0))
        ELSE None

content_length(resp) ==
    IF resp.content_length.some THEN parse_u64(resp.content_length.val) ELSE None

(***************************************************************************)
(* indicatif::ProgressBar                                                  *)
(***************************************************************************)
ProgressBar_new(len) == [len |-> len, pos |-> 0, finishes |-> 0, exists |-> TRUE]
inc(bar, n) == [bar EXCEPT !.pos = @ + n]
finish(bar) == [bar EXCEPT !.pos = bar.len, !.finishes = @ + 1]

(***************************************************************************)
(* DownloadProgress::read                                                  *)
(***************************************************************************)
ReadOk(n) == [ok |-> TRUE, n |-> n]
ReadErr(kind) == [ok |-> FALSE, kind |-> kind]

\* the bar advanced on every call, failed or not
DownloadProgress_read_bar_always(bar, r) == inc(bar, IF r.ok THEN r.n ELSE 1)

\* the progress bar after self.inner.read(buf) returned r
DownloadProgress_read_bar(bar, r) == IF r.ok THEN inc(bar, r.n) ELSE bar

\* what read returns to its caller when self.inner.read(buf) returned r
DownloadProgress_read(r) == r

(***************************************************************************)
(* download                                                                *)
(***************************************************************************)
Fail(kind, at) == [kind |-> kind, at |-> at]

\* size taken from the declared Content-Length
DownloadInfo_declared_size(m, v, size, dp) ==
    [package |-> m.package, version |-> v, size |-> byte_size,
     compressed_path |-> dp.compressed_path,
     uncompressed_path |-> dp.uncompressed_path]

DownloadInfo(m, v, size, dp) ==
    [package |-> m.package, version |-> v, size |-> size,
     compressed_path |-> dp.compressed_path,
     uncompressed_path |-> dp.uncompressed_path]

\* OpenOptions::new().write(true).create(true).truncate(true).open(path)
create_truncate(files, path) ==
    IF path = <<>>
    THEN [ok |-> FALSE, files |-> files]
    ELSE [ok |-> TRUE,
          files |-> [p \in DOMAIN files \cup {path} |->
                        IF p = path THEN <<>> ELSE files[p]]]

\* OpenOptions::new().write(true).create_new(true).open(path)
create_new(files, path) ==
    IF path \in DOMAIN files \/ path = <<>>
    THEN [ok |-> FALSE, files |-> files]
    ELSE [ok |-> TRUE,
          files |-> [p \in DOMAIN files \cup {path} |->
                        IF p = path THEN <<>> ELSE files[p]]]

\* Write::write of bytes to the file at path
write(files, path, bytes) == [files EXCEPT ![path] = @ \o bytes]

\* the partial file removed when copy fails
after_copy_error_cleanup(files, path) ==
    [p \in DOMAIN files \ {path} |-> files[p]]

\* the file system after copy returned an error: nothing is cleaned up
after_copy_error(files, path) == files

Locals == <<download_url, version, response, body_pos, byte_size, pb,
            download_path, buf, written, interrupts, last_read, get_count,
            fetched_url>>

\* a caller invokes download(manifest, req)
Call(m, r) ==
    /\ pc \in {"idle", "done"}
    /\ calls < MaxCalls
    /\ calls' = calls + 1
    /\ manifest' = m
    /\ req' = r
    /\ prev' = [started |-> calls > 0,
                same |-> calls > 0 /\ m = manifest /\ r = req,
                kind |-> outcome.kind]
    /\ fs_at_call' = fs
    /\ download_url' = <<>>
    /\ version' = None
    /\ response' = NoResponse
    /\ body_pos' = 0
    /\ byte_size' = 0
    /\ pb' = NoBar
    /\ download_path' = NoPath
    /\ buf' = <<>>
    /\ written' = 0
    /\ interrupts' = 0
    /\ last_read' = NoRead
    /\ get_count' = 0
    /\ fetched_url' = <<>>
    /\ steps' = <<>>
    /\ outcome' = NoOutcome
    /\ pc' = "resolve"
    /\ UNCHANGED <<fs, url_in, path_out>>

\* lines 89-90
Resolve ==
    /\ pc = "resolve"
    /\ steps' = Append(steps, "resolve")
    /\ LET r == assemble_download_url(manifest, req)
       IN  IF r.some
           THEN /\ download_url' = r.val.url
                /\ version' = Some(r.val.version)
                /\ pc' = "get"
                /\ UNCHANGED outcome
           ELSE /\ outcome' = Fail("Panic", "resolve")
                /\ pc' = "done"
                /\ UNCHANGED <<download_url, version>>
    /\ UNCHANGED <<calls, manifest, req, fs, response, body_pos, byte_size, pb,
                   download_path, buf, written, interrupts, last_read,
                   get_count, fetched_url, fs_at_call, prev, url_in, path_out>>

\* a failed request is sent again
GetFails_retries ==
    /\ pc = "get"
    /\ get_count < 3
    /\ steps' = Append(steps, "get")
    /\ get_count' = get_count + 1
    /\ fetched_url' = download_url
    /\ pc' = "get"
    /\ UNCHANGED <<calls, manifest, req, fs, download_url, version, response,
                   body_pos, byte_size, pb, download_path, buf, written,
                   interrupts, last_read, fs_at_call, outcome, prev, url_in,
                   path_out>>

\* line 93, the request cannot be sent or fails
GetFails ==
    /\ pc = "get"
    /\ steps' = Append(steps, "get")
    /\ get_count' = get_count + 1
    /\ fetched_url' = download_url
    /\ outcome' = Fail("Err", "get")
    /\ pc' = "done"
    /\ UNCHANGED <<calls, manifest, req, fs, download_url, version, response,
                   body_pos, byte_size, pb, download_path, buf, written,
                   interrupts, last_read, fs_at_call, prev, url_in, path_out>>

\* line 93, a response arrives; only http and https URLs can be requested
GetResponds(resp) ==
    /\ pc = "get"
    /\ LET url == UrlParse(download_url)
       IN  url.ok /\ url.scheme \in SpecialSchemes
    /\ steps' = Append(steps, "get")
    /\ get_count' = get_count + 1
    /\ fetched_url' = download_url
    /\ response' = resp
    /\ pc' = "length"
    /\ UNCHANGED <<calls, manifest, req, fs, download_url, version, body_pos,
                   byte_size, pb, download_path, buf, written, interrupts,
                   last_read, fs_at_call, outcome, prev, url_in, path_out>>

\* lines 94-111
ContentLength ==
    /\ pc = "length"
    /\ steps' = Append(steps, "length")
    /\ LET n == content_length(response)
       IN  IF n.some
           THEN /\ byte_size' = n.val
                /\ pb' = ProgressBar_new(n.val)
                /\ pc' = "paths"
                /\ UNCHANGED outcome
           ELSE /\ outcome' = Fail("Panic", "length")
                /\ pc' = "done"
                /\ UNCHANGED <<byte_size, pb>>
    /\ UNCHANGED <<calls, manifest, req, fs, download_url, version, response,
                   body_pos, download_path, buf, written, interrupts, last_read,
                   get_count, fetched_url, fs_at_call, prev, url_in, path_out>>

\* line 112
Paths ==
    /\ pc = "paths"
    /\ steps' = Append(steps, "paths")
    /\ LET r == DownloadPath_from(download_url)
       IN  IF r.kind = "Ok"
           THEN /\ download_path' = r
                /\ pc' = "open"
                /\ UNCHANGED outcome
           ELSE /\ outcome' = Fail(r.kind, "paths")
                /\ pc' = "done"
                /\ UNCHANGED download_path
    /\ UNCHANGED <<calls, manifest, req, fs, download_url, version, response,
                   body_pos, byte_size, pb, buf, written, interrupts, last_read,
                   get_count, fetched_url, fs_at_call, prev, url_in, path_out>>

\* lines 115-124, the file is created
Open ==
    /\ pc = "open"
    /\ steps' = Append(steps, "open")
    /\ LET r == create_new(fs, download_path.compressed_path)
       IN  IF r.ok
           THEN /\ fs' = r.files
                /\ pc' = "copy"
                /\ UNCHANGED outcome
           ELSE /\ fs' = r.files
                /\ outcome' = Fail("Panic", "open")
                /\ pc' = "done"
    /\ UNCHANGED <<calls, manifest, req, Locals, fs_at_call, prev, url_in, path_out>>

\* lines 115-124, open fails for another reason than an existing file
OpenRefused ==
    /\ pc = "open"
    /\ steps' = Append(steps, "open")
    /\ outcome' = Fail("Panic", "open")
    /\ pc' = "done"
    /\ UNCHANGED <<calls, manifest, req, fs, Locals, fs_at_call, prev, url_in, path_out>>

\* the results self.inner.read(buf) can produce
InnerReads ==
    LET remaining == Len(response.body) - body_pos
    IN  (IF remaining = 0 THEN {ReadOk(0)}
         ELSE {ReadOk(n) : n \in 1..(IF remaining < MaxChunk THEN remaining ELSE MaxChunk)})
        \cup {ReadErr("Other")}
        \cup (IF interrupts < MaxInterrupts THEN {ReadErr("Interrupted")} ELSE {})

\* line 127, io::copy calls source.read(buf)
CopyRead(r) ==
    /\ pc = "copy"
    /\ r \in InnerReads
    /\ steps' = IF steps[Len(steps)] = "copy" THEN steps ELSE Append(steps, "copy")
    /\ pb' = DownloadProgress_read_bar(pb, r)
    /\ last_read' = [called |-> TRUE, inner |-> r, ret |-> DownloadProgress_read(r)]
    /\ body_pos' = IF r.ok THEN body_pos + r.n ELSE body_pos
    /\ LET ret == DownloadProgress_read(r)
       IN  IF ret.ok /\ ret.n = 0
           THEN /\ pc' = "finish"
                /\ UNCHANGED <<buf, interrupts, outcome, fs>>
           ELSE IF ret.ok
           THEN /\ buf' = SubSeq(response.body, body_pos + 1, body_pos + ret.n)
                /\ pc' = "write"
                /\ UNCHANGED <<interrupts, outcome, fs>>
           ELSE IF ret.kind = "Interrupted"
           THEN /\ interrupts' = interrupts + 1
                /\ pc' = "copy"
                /\ UNCHANGED <<buf, outcome, fs>>
           ELSE /\ outcome' = Fail("Err", "copy")
                /\ fs' = after_copy_error(fs, download_path.compressed_path)
                /\ pc' = "done"
                /\ UNCHANGED <<buf, interrupts>>
    /\ UNCHANGED <<calls, manifest, req, download_url, version, response,
                   byte_size, download_path, written, get_count, fetched_url,
                   fs_at_call, prev, url_in, path_out>>

\* line 127, io::copy writes the bytes it read with dest.write_all
CopyWrite ==
    /\ pc = "write"
    /\ fs' = write(fs, download_path.compressed_path, buf)
    /\ written' = written + Len(buf)
    /\ buf' = <<>>
    /\ pc' = "copy"
    /\ UNCHANGED <<calls, manifest, req, download_url, version, response,
                   body_pos, byte_size, pb, download_path, interrupts,
                   last_read, get_count, fetched_url, fs_at_call, steps,
                   outcome, prev, url_in, path_out>>

\* line 127, dest.write_all fails after k bytes reached the file
CopyWriteFails(k) ==
    /\ pc = "write"
    /\ k \in 0..(Len(buf) - 1)
    /\ fs' = after_copy_error(write(fs, download_path.compressed_path, SubSeq(buf, 1, k)),
                              download_path.compressed_path)
    /\ outcome' = Fail("Err", "copy")
    /\ pc' = "done"
    /\ UNCHANGED <<calls, manifest, req, download_url, version, response,
                   body_pos, byte_size, pb, download_path, buf, written,
                   interrupts, last_read, get_count, fetched_url, fs_at_call,
                   steps, prev, url_in, path_out>>

\* line 129
Finish ==
    /\ pc = "finish"
    /\ steps' = Append(steps, "finish")
    /\ pb' = finish(pb)
    /\ pc' = "result"
    /\ UNCHANGED <<calls, manifest, req, fs, download_url, version, response,
                   body_pos, byte_size, download_path, buf, written, interrupts,
                   last_read, get_count, fetched_url, fs_at_call, outcome, prev,
                   url_in, path_out>>

\* lines 135-141
Return ==
    /\ pc = "result"
    /\ steps' = Append(steps, "result")
    /\ outcome' = [kind |-> "Ok",
                   info |-> DownloadInfo(manifest, version.val, written, download_path)]
    /\ pc' = "done"
    /\ UNCHANGED <<calls, manifest, req, fs, Locals, fs_at_call, prev, url_in, path_out>>

Init ==
    /\ pc = "idle"
    /\ calls = 0
    /\ manifest = ExampleManifest
    /\ req = None
    /\ fs \in InitialFileSystems
    /\ fs_at_call = fs
    /\ download_url = <<>>
    /\ version = None
    /\ response = NoResponse
    /\ body_pos = 0
    /\ byte_size = 0
    /\ pb = NoBar
    /\ download_path = NoPath
    /\ buf = <<>>
    /\ written = 0
    /\ interrupts = 0
    /\ last_read = NoRead
    /\ get_count = 0
    /\ fetched_url = <<>>
    /\ steps = <<>>
    /\ outcome = NoOutcome
    /\ prev = NoPrev
    /\ url_in = <<>>
    /\ path_out = NoPath

Next ==
    \/ \E m \in Manifests, r \in Requirements : Call(m, r)
    \/ Resolve
    \/ GetFails
    \/ \E resp \in Responses : GetResponds(resp)
    \/ ContentLength
    \/ Paths
    \/ Open
    \/ OpenRefused
    \/ \E r \in InnerReads : CopyRead(r)
    \/ CopyWrite
    \/ \E k \in 0..MaxChunk : CopyWriteFails(k)
    \/ Finish
    \/ Return

Spec == Init /\ [][Next]_vars

(***************************************************************************)
(* DownloadPath::from on its own, applied to arbitrary URL strings         *)
(***************************************************************************)
UrlAlphabet == {"a", ".", "/", "#", "?", "{"}
UrlPrefixes == {PrefixHttps, PrefixOther, PrefixOtherBare, <<>>}
Strings(n) == UNION {[1..k -> UrlAlphabet] : k \in 0..n}
UrlInputs == {p \o rest : p \in UrlPrefixes, rest \in Strings(MaxRest)}

InitPath ==
    /\ pc = "idle"
    /\ calls = 0
    /\ manifest = ExampleManifest
    /\ req = None
    /\ fs = NoFiles
    /\ fs_at_call = NoFiles
    /\ download_url = <<>>
    /\ version = None
    /\ response = NoResponse
    /\ body_pos = 0
    /\ byte_size = 0
    /\ pb = NoBar
    /\ download_path = NoPath
    /\ buf = <<>>
    /\ written = 0
    /\ interrupts = 0
    /\ last_read = NoRead
    /\ get_count = 0
    /\ fetched_url = <<>>
    /\ steps = <<>>
    /\ outcome = NoOutcome
    /\ prev = NoPrev
    /\ url_in \in UrlInputs
    /\ path_out = NoPath

\* DownloadPath::from(url_in)
ApplyFrom ==
    /\ path_out = NoPath
    /\ path_out' = DownloadPath_from(url_in)
    /\ UNCHANGED <<pc, calls, manifest, req, fs, Locals, fs_at_call, steps,
                   outcome, prev, url_in>>

NextPath == ApplyFrom

PathSpec == InitPath /\ [][NextPath]_vars

(***************************************************************************)
(* Properties of DownloadPath::from (checked under PathSpec)               *)
(***************************************************************************)
Applied == path_out # NoPath

\* the text of url_in, read as scheme://host followed by the rest
TextColon == IndexFrom(url_in, {":"}, 1)
TextHostEnd == IndexFrom(url_in, {"/", "#", "?"}, TextColon + 3)
TextHash == IndexFrom(url_in, {"#"}, 1)
TextHasSchemeAndHost ==
    /\ TextColon > 1
    /\ TextColon + 2 <= Len(url_in)
    /\ \A i \in 1..(TextColon - 1) : url_in[i] \in Letters
    /\ url_in[TextColon + 1] = "/"
    /\ url_in[TextColon + 2] = "/"
    /\ TextHostEnd > TextColon + 3
    /\ \A i \in (TextColon + 3)..(TextHostEnd - 1) : url_in[i] \in Letters

\* url_in has the form scheme://host/.../name#tag
IsNameTagForm ==
    /\ TextHasSchemeAndHost
    /\ TextHostEnd <= Len(url_in)
    /\ url_in[TextHostEnd] = "/"
    /\ TextHash <= Len(url_in)
    /\ \A i \in TextHostEnd..TextHash : url_in[i] # "?"

TextPathPieces == Split(SubSeq(url_in, TextHostEnd + 1, TextHash - 1), "/")
TextName == TextPathPieces[Len(TextPathPieces)]
TextTag == SubSeq(url_in, TextHash + 1, Len(url_in))

\* url_in is scheme://host with nothing, a query or a fragment after the host
HasNoPathSegments ==
    /\ TextHasSchemeAndHost
    /\ (TextHostEnd > Len(url_in) \/ url_in[TextHostEnd] # "/")

HasNoFragment == TextHash > Len(url_in)

\* the URL parser keeps name as it is: name is not a dot segment and has no
\* character that is percent-encoded in a path
KeptByParser(name) ==
    /\ name # Dot
    /\ name # DotDot
    /\ \A i \in 1..Len(name) : name[i] \notin {"{", "}"}

C6_FailsWithoutFragmentOrSegments ==
    (Applied /\ (HasNoFragment \/ HasNoPathSegments)) => path_out.kind # "Ok"

(***************************************************************************)
(* Properties of download (checked under Spec)                             *)
(***************************************************************************)
Failed == outcome.kind \in {"Err", "Panic"}
Succeeded == outcome.kind = "Ok"
IsPrefix(s, t) == Len(s) <= Len(t) /\ SubSeq(t, 1, Len(s)) = s

\* C1: when a file already exists at the compressed path as the open step is
\* reached, the call fails and leaves the file system as it was; no file
\* that existed when the call started is ever changed; and a call that
\* repeats a successful call never succeeds.
C1_ExistingFileKept ==
    /\ [][(pc = "open" /\ download_path.compressed_path \in DOMAIN fs) =>
             (fs' = fs /\ outcome'.kind = "Panic" /\ pc' = "done")]_vars
    /\ [](\A p \in DOMAIN fs_at_call : p \in DOMAIN fs /\ fs[p] = fs_at_call[p])
    /\ []((prev.same /\ prev.kind = "Ok") => ~Succeeded)

C1_Witness ==
    /\ prev.same
    /\ prev.kind = "Ok"
    /\ outcome = Fail("Panic", "open")
    /\ download_path.compressed_path \in DOMAIN fs_at_call
    /\ Len(fs[download_path.compressed_path]) > 0
    /\ Len(response.body) # Len(fs[download_path.compressed_path])

\* C2: a successful call returns size = the number of bytes in the
\* destination file = the number of bytes the body reads returned, whatever
\* Content-Length declared.
C2_SizeIsBytesWritten ==
    Succeeded =>
        /\ outcome.info.size = Len(fs[outcome.info.compressed_path])
        /\ outcome.info.size = body_pos
        /\ fs[outcome.info.compressed_path] = response.body

C2_Witness ==
    /\ Succeeded
    /\ outcome.info.size # byte_size
    /\ outcome.info.size > 0

\* C3: until the bar is finished its position equals the number of bytes
\* the successful reads returned; read returns what the inner read
\* returned; a successful read of n bytes advances the bar by n and a
\* failed read leaves the bar unchanged.
C3_CounterTracksReads ==
    /\ []((pb.exists /\ pb.finishes = 0) => pb.pos = body_pos)
    /\ [](last_read.called => last_read.ret = last_read.inner)
    /\ [][pc = "copy" =>
             IF last_read'.inner.ok
             THEN pb' = [pb EXCEPT !.pos = pb.pos + last_read'.inner.n]
             ELSE pb' = pb]_vars

C3_Witness ==
    /\ last_read.called
    /\ ~last_read.inner.ok
    /\ pb.pos = 1
    /\ body_pos = 1
    /\ Len(response.body) = 2

\* C4: the listed version the matcher finds is returned, also when a pinned
\* version is declared; otherwise the pinned version is returned if there
\* is one, whether or not it satisfies the requirement; otherwise nothing.
C4_Precedence ==
    steps # <<>> =>
        LET matched == IF manifest.versions.some
                       THEN find_matching_version(manifest.versions.val, req)
                       ELSE None
        IN  IF matched.some
            THEN version = matched /\ ~(Failed /\ outcome.at = "resolve")
            ELSE IF manifest.pinned.some
            THEN version = manifest.pinned /\ ~(Failed /\ outcome.at = "resolve")
            ELSE version = None /\ outcome = Fail("Panic", "resolve")

C4_Witness ==
    /\ steps # <<>>
    /\ manifest.versions.some
    /\ manifest.versions.val # <<>>
    /\ ~find_matching_version(manifest.versions.val, req).some
    /\ req.some
    /\ manifest.pinned.some
    /\ ~Matches(req.val, manifest.pinned.val)
    /\ version = manifest.pinned

ExampleCall == manifest = ExampleManifest /\ req = None /\ calls > 0

\* C7 as stated: the example call writes pkg.tar.gz and returns
\* compressed_path = uncompressed_path = "pkg.tar.gz".
C7_AsStated ==
    (ExampleCall /\ Succeeded) =>
        /\ outcome.info.version = V200
        /\ fetched_url = UrlExample
        /\ PkgTarGz \in DOMAIN fs
        /\ outcome.info.compressed_path = PkgTarGz
        /\ outcome.info.uncompressed_path = PkgTarGz

\* C7 amended: the example call resolves 2.0.0, fetches
\* https://example.test/pkg/2.0.0/pkg.tar.gz#pkg, writes the body to the new
\* local file pkg (and creates no file pkg.tar.gz), and returns
\* version = 2.0.0, compressed_path = "pkg", uncompressed_path = "pkg.tar.gz".
C7_EndToEnd ==
    ExampleCall =>
        /\ (steps # <<>>) => version = Some(V200)
        /\ (get_count > 0) => fetched_url = UrlExample
        /\ Succeeded =>
              /\ outcome.info.version = V200
              /\ outcome.info.package = "pkg"
              /\ outcome.info.compressed_path = Pkg
              /\ outcome.info.uncompressed_path = PkgTarGz
              /\ Pkg \in DOMAIN fs
              /\ Pkg \notin DOMAIN fs_at_call
              /\ fs[Pkg] = response.body
              /\ PkgTarGz \notin DOMAIN fs

C7_Witness ==
    /\ ExampleCall
    /\ Succeeded
    /\ fs[Pkg] = Body(2)

RECURSIVE IsTemplateWith(_, _, _)
\* out is tpl with every leftmost occurrence of TOKEN replaced by vs
IsTemplateWith(tpl, vs, out) ==
    IF tpl = <<>> THEN out = <<>>
    ELSE IF StartsWith(tpl, TOKEN)
    THEN /\ StartsWith(out, vs)
         /\ IsTemplateWith(SubSeq(tpl, Len(TOKEN) + 1, Len(tpl)), vs,
                           SubSeq(out, Len(vs) + 1, Len(out)))
    ELSE /\ out # <<>>
         /\ out[1] = tpl[1]
         /\ IsTemplateWith(Tail(tpl), vs, Tail(out))

HasToken(s) == \E i \in 1..Len(s) : StartsWith(SubSeq(s, i, Len(s)), TOKEN)

\* C8: the URL that is fetched, and from which the local paths are derived,
\* is the manifest's template with every {version} replaced by the string
\* form of the resolved version, which is the version the result carries; a
\* template without the token is used unchanged.
C8_UrlIsTemplateWithVersion ==
    /\ (get_count > 0) =>
          /\ version.some
          /\ IsTemplateWith(manifest.url, to_string(version.val), fetched_url)
          /\ ~HasToken(fetched_url)
          /\ ~HasToken(manifest.url) => fetched_url = manifest.url
    /\ (download_path.kind = "Ok") => download_path = DownloadPath_from(fetched_url)
    /\ Succeeded =>
          /\ outcome.info.version = version.val
          /\ outcome.info.compressed_path = download_path.compressed_path
          /\ outcome.info.uncompressed_path = download_path.uncompressed_path

C8_Witness ==
    /\ Succeeded
    /\ manifest.url = TplTwice
    /\ outcome.info.version = V1000
    /\ manifest.pinned = Some(V1000)

CopyFailed == outcome = Fail("Err", "copy")

\* C9: when the copy fails the call ends with an error and no result, the
\* destination file created by the call stays, holding the bytes written
\* before the failure, the bar is not finished, and nothing more is done.
C9_PartialFileKept ==
    /\ [](CopyFailed =>
            /\ pc = "done"
            /\ download_path.compressed_path \in DOMAIN fs
            /\ download_path.compressed_path \notin DOMAIN fs_at_call
            /\ IsPrefix(fs[download_path.compressed_path], response.body)
            /\ written <= Len(fs[download_path.compressed_path])
            /\ Len(fs[download_path.compressed_path]) <= body_pos
            /\ pb.finishes = 0
            /\ get_count = 1)
    /\ [][CopyFailed => calls' = calls + 1]_vars

C9_Witness ==
    /\ CopyFailed
    /\ fs[download_path.compressed_path] = Body(1)
    /\ response.body = Body(2)

StepOrder == <<"resolve", "get", "length", "paths", "open", "copy", "finish", "result">>

\* C10: the steps run in the order resolve, GET, content length, paths,
\* open, copy, finish, result; a failing step is the last step of its call;
\* no GET follows a failed resolution and at most one GET is issued; no file
\* is created unless the first four steps succeeded; a result is produced
\* only after the copy reached end-of-source and the bar was finished once.
C10_StepOrder ==
    /\ [](IsPrefix(steps, StepOrder))
    /\ [](Failed => (pc = "done" /\ steps # <<>> /\ steps[Len(steps)] = outcome.at))
    /\ [](get_count <= 1 /\ (get_count = 1 <=> Len(steps) >= 2))
    /\ []((Failed /\ outcome.at = "resolve") => get_count = 0)
    /\ []((fs # fs_at_call) =>
            (Len(steps) >= 5 /\ ~(Failed /\ outcome.at \in {"resolve", "get", "length", "paths"})))
    /\ [](pb.finishes <= 1)
    /\ [](Succeeded =>
            /\ steps = StepOrder
            /\ pc = "done"
            /\ pb.finishes = 1
            /\ body_pos = Len(response.body)
            /\ last_read.inner = ReadOk(0))
    /\ [][(Failed \/ Succeeded) => calls' = calls + 1]_vars

C10_Witness ==
    /\ Succeeded
    /\ steps = StepOrder
    /\ get_count = 1
    /\ calls = 2
    /\ prev.kind = "Panic"

====
